---------------------------- MODULE Spec2Model ----------------------------
(***************************************************************************)
(* A model of src/driver.py, the OMol25 command-line driver.               *)
(*                                                                         *)
(* Two specifications are given over the same variables:                   *)
(*   SpecResolve  the option resolver read_charge_and_multiplicity, run    *)
(*                block by block (charge block, multiplicity block) on     *)
(*                marker-file texts of up to MaxLen characters;            *)
(*   Spec         one run of main: resolve, load the model, read the       *)
(*                structure, optionally optimize, evaluate, write files.   *)
(*                                                                         *)
(* Texts are sequences of one-character strings.  Python's None is the     *)
(* record None; Some(v) is a present value.  Floats are modelled as exact  *)
(* rationals plus the two special values inf and nan: for decimal texts of *)
(* the lengths considered here the binary rounding of float() never moves  *)
(* a value across an integer, so truncation gives the same integer.        *)
(***************************************************************************)
EXTENDS Integers, Sequences, FiniteSets, TLC

VARIABLES
    pc,            \* position of the run
    cli_charge,    \* args.charge: None or Some(int)
    cli_mult,      \* args.multiplicity: None or Some(int)
    verbose,       \* args.verbose
    marker,        \* the marker file of the block that ran last, as it was
    charge,        \* local charge of the resolver / main: None until bound
    multiplicity,  \* local multiplicity: None until bound
    uhf,           \* local uhf (a float) of the resolver
    err,           \* the exception that ended the run, NoErr otherwise
    out,           \* lines printed by the resolver
    opt,           \* args.opt
    stage,         \* the step that raised, "" while none has
    resolves,      \* calls of read_charge_and_multiplicity so far
    calc,          \* the calculator built from the loaded model
    atoms,         \* the structure: symbols, positions, info, calc
    original_atoms,\* the copy taken before the optimization
    nsteps,        \* iterations the optimizer has made
    converged,     \* what optimizer.run found; optimize() drops it
    last_call,     \* the latest evaluator call and what it saw
    evals,         \* the driver's own evaluator calls
    energy,        \* energy in Hartree, a float
    forces,        \* forces as the evaluator returned them
    prev,          \* whether an earlier run left its output files behind
    gradient_file, \* the file "gradient"
    energy_file,   \* the file "energy"
    opt_file,      \* the file "omol25-opt.xyz"
    traj_file      \* the file "trajectory.out"

rvars == <<pc, cli_charge, cli_mult, verbose, marker, charge, multiplicity,
           uhf, err, out>>
mvars == <<opt, stage, resolves, calc, atoms, original_atoms, nsteps,
           converged, last_call, evals, energy, forces, prev>>
fvars == <<gradient_file, energy_file, opt_file, traj_file>>
vars == <<rvars, mvars, fvars>>

----------------------------------------------------------------------------
(* Bounds of the model.                                                    *)

\* longest marker-file text the resolver specification reads
MaxLen == 3
\* command-line charges range over -MaxCharge..MaxCharge
MaxCharge == 1
\* command-line multiplicities range over 0..MaxMult
MaxMult == 2

----------------------------------------------------------------------------
(* Optional values, texts, marker files.                                   *)

None == [some |-> FALSE, val |-> 0]
Some(v) == [some |-> TRUE, val |-> v]

\* characters of marker-file texts: a sign, digits, a point, white space,
\* and the letters of "inf" and "nan"
Chars == {"-", "0", "1", ".", " ", "i", "n", "f", "a"}

Texts(n) == UNION {[1..k -> Chars] : k \in 0..n}

CHRG == ".CHRG"
UHF == ".UHF"

\* a marker file as a block finds it: chrg_file.exists() and read_text()
AbsentFile == [exists |-> FALSE, text |-> <<>>]
FileWith(t) == [exists |-> TRUE, text |-> t]
MarkerStates(n) == {AbsentFile} \cup {FileWith(t) : t \in Texts(n)}

\* marker files of three sorts: absent, holding a number, holding text that
\* is no number
SampleMarkers == {AbsentFile, FileWith(<<"1", " ">>), FileWith(<<"a">>)}

\* no block has run yet
NoMarker == [name |-> "", exists |-> FALSE, text |-> <<>>]
Seen(name, f) == [name |-> name, exists |-> f.exists, text |-> f.text]

----------------------------------------------------------------------------
(* str.strip(), int(str), float(str) and float arithmetic.                 *)

RECURSIVE lstrip(_)
lstrip(s) == IF s # <<>> /\ Head(s) = " " THEN lstrip(Tail(s)) ELSE s

RECURSIVE rstrip(_)
rstrip(s) ==
    IF s # <<>> /\ s[Len(s)] = " " THEN rstrip(SubSeq(s, 1, Len(s) - 1)) ELSE s

strip(s) == rstrip(lstrip(s))

IsDigit(c) == c \in {"0", "1"}
DigitVal(c) == IF c = "1" THEN 1 ELSE 0

RECURSIVE DigitsValue(_)
DigitsValue(s) ==
    IF s = <<>> THEN 0
    ELSE DigitsValue(SubSeq(s, 1, Len(s) - 1)) * 10 + DigitVal(s[Len(s)])

AllDigits(s) == \A i \in 1..Len(s) : IsDigit(s[i])

Negative(s) == s # <<>> /\ Head(s) = "-"
Unsigned(s) == IF Negative(s) THEN Tail(s) ELSE s

NoErr == [type |-> "", text |-> "", file |-> "", literal |-> <<>>]
ErrOf(type, text, file, literal) ==
    [type |-> type, text |-> text, file |-> file, literal |-> literal]

\* int(s): an optional sign and at least one digit, nothing else
int_of_str(s) ==
    LET body == Unsigned(s)
        ok == body # <<>> /\ AllDigits(body)
    IN  IF ok
        THEN [ok |-> TRUE,
              val |-> IF Negative(s) THEN -DigitsValue(body) ELSE DigitsValue(body),
              err |-> NoErr]
        ELSE [ok |-> FALSE, val |-> 0,
              err |-> ErrOf("ValueError",
                            "invalid literal for int() with base 10: ", "", s)]

RECURSIVE GCD(_, _)
GCD(a, b) == IF b = 0 THEN a ELSE GCD(b, a % b)

Abs(x) == IF x < 0 THEN -x ELSE x

\* a finite float num/den in lowest terms, den > 0
Fin(n, d) ==
    LET g == GCD(Abs(n), d)
    IN  [kind |-> "fin", num |-> n \div g, den |-> d \div g]
Inf(neg) == [kind |-> "inf", num |-> IF neg THEN -1 ELSE 1, den |-> 1]
NaN == [kind |-> "nan", num |-> 0, den |-> 1]
NoFloat == [kind |-> "none", num |-> 0, den |-> 1]

RECURSIVE Pow10(_)
Pow10(k) == IF k = 0 THEN 1 ELSE 10 * Pow10(k - 1)

Dots(s) == {i \in 1..Len(s) : s[i] = "."}

\* float(s): an optional sign, then "inf", "nan", or digits with at most one
\* point and at least one digit
float_of_str(s) ==
    LET body == Unsigned(s)
        neg == Negative(s)
        bad == [ok |-> FALSE, val |-> NoFloat,
                err |-> ErrOf("ValueError",
                              "could not convert string to float: ", "", s)]
    IN  IF body = <<"i", "n", "f">>
        THEN [ok |-> TRUE, val |-> Inf(neg), err |-> NoErr]
        ELSE IF body = <<"n", "a", "n">>
        THEN [ok |-> TRUE, val |-> NaN, err |-> NoErr]
        ELSE IF Cardinality(Dots(body)) > 1 THEN bad
        ELSE LET p == IF Dots(body) = {} THEN Len(body) + 1
                      ELSE CHOOSE i \in Dots(body) : TRUE
                 whole == SubSeq(body, 1, p - 1)
                 frac == SubSeq(body, p + 1, Len(body))
                 n == DigitsValue(whole \o frac)
             IN  IF AllDigits(whole) /\ AllDigits(frac) /\ whole \o frac # <<>>
                 THEN [ok |-> TRUE,
                       val |-> Fin(IF neg THEN -n ELSE n, Pow10(Len(frac))),
                       err |-> NoErr]
                 ELSE bad

Sign(x) == IF x < 0 THEN -1 ELSE IF x > 0 THEN 1 ELSE 0

\* a * b on floats
FMul(a, b) ==
    IF a.kind = "nan" \/ b.kind = "nan" THEN NaN
    ELSE IF a.kind = "inf" \/ b.kind = "inf"
    THEN IF a.num = 0 \/ b.num = 0 THEN NaN
         ELSE Inf(Sign(a.num) * Sign(b.num) < 0)
    ELSE Fin(a.num * b.num, a.den * b.den)

\* a + b on floats
FAdd(a, b) ==
    IF a.kind = "nan" \/ b.kind = "nan" THEN NaN
    ELSE IF a.kind = "inf" /\ b.kind = "inf"
    THEN IF a.num = b.num THEN a ELSE NaN
    ELSE IF a.kind = "inf" THEN a
    ELSE IF b.kind = "inf" THEN b
    ELSE LET g == GCD(a.den, b.den)
             l == (a.den \div g) * b.den
         IN  Fin(a.num * (l \div a.den) + b.num * (l \div b.den), l)

\* -a and a / b on finite floats, b nonzero
FNeg(a) == Fin(-a.num, a.den)
FDiv(a, b) == Fin(a.num * b.den * Sign(b.num), a.den * Abs(b.num))

\* sqrt(a) of a finite float a >= 0, kept as the root of its argument
FSqrt(a) ==
    IF a.num = 0 THEN Fin(0, 1)
    ELSE [kind |-> "sqrt", num |-> a.num, den |-> a.den]

\* int(x) on a float: truncation toward zero, an error for inf and nan
int_of_float(x) ==
    IF x.kind = "inf"
    THEN [ok |-> FALSE, val |-> 0,
          err |-> ErrOf("OverflowError",
                        "cannot convert float infinity to integer", "", <<>>)]
    ELSE IF x.kind = "nan"
    THEN [ok |-> FALSE, val |-> 0,
          err |-> ErrOf("ValueError",
                        "cannot convert float NaN to integer", "", <<>>)]
    ELSE [ok |-> TRUE,
          val |-> IF x.num >= 0 THEN x.num \div x.den
                  ELSE -((-x.num) \div x.den),
          err |-> NoErr]

----------------------------------------------------------------------------
(* read_charge_and_multiplicity, block by block.                           *)

Line(text, file, val) == [text |-> text, file |-> file, val |-> val]
Printed(v, line) == IF v THEN <<line>> ELSE <<>>

\* the charge block with the marker file consulted before the command line
ChargeBlock_FileFirst(cli, chrg_file, v) ==
    IF chrg_file.exists
    THEN LET r == int_of_str(strip(chrg_file.text))
         IN  IF r.ok
             THEN [raised |-> FALSE, charge |-> Some(r.val), err |-> NoErr,
                   out |-> Printed(v, Line("Using charge from file ", CHRG, r.val))]
             ELSE [raised |-> TRUE, charge |-> None, err |-> r.err, out |-> <<>>]
    ELSE IF cli.some
    THEN [raised |-> FALSE, charge |-> Some(cli.val), err |-> NoErr,
          out |-> Printed(v, Line("Using charge from CLI: ", "", cli.val))]
    ELSE [raised |-> FALSE, charge |-> Some(0), err |-> NoErr,
          out |-> Printed(v, Line("Using default charge: 0", "", 0))]

\* the charge block falling back to the default when .CHRG is no integer
ChargeBlock_DefaultOnBad(cli, chrg_file, v) ==
    IF cli.some
    THEN [raised |-> FALSE, charge |-> Some(cli.val), err |-> NoErr,
          out |-> Printed(v, Line("Using charge from CLI: ", "", cli.val))]
    ELSE IF chrg_file.exists /\ int_of_str(strip(chrg_file.text)).ok
    THEN [raised |-> FALSE,
          charge |-> Some(int_of_str(strip(chrg_file.text)).val),
          err |-> NoErr,
          out |-> Printed(v, Line("Using charge from file ", CHRG,
                                  int_of_str(strip(chrg_file.text)).val))]
    ELSE [raised |-> FALSE, charge |-> Some(0), err |-> NoErr,
          out |-> Printed(v, Line("Using default charge: 0", "", 0))]

\* lines 52-63: the charge block
ChargeBlock(cli, chrg_file, v) ==
    IF cli.some
    THEN [raised |-> FALSE, charge |-> Some(cli.val), err |-> NoErr,
          out |-> Printed(v, Line("Using charge from CLI: ", "", cli.val))]
    ELSE IF chrg_file.exists
    THEN LET r == int_of_str(strip(chrg_file.text))
         IN  IF r.ok
             THEN [raised |-> FALSE, charge |-> Some(r.val), err |-> NoErr,
                   out |-> Printed(v, Line("Using charge from file ", CHRG, r.val))]
             ELSE [raised |-> TRUE, charge |-> None, err |-> r.err, out |-> <<>>]
    ELSE [raised |-> FALSE, charge |-> Some(0), err |-> NoErr,
          out |-> Printed(v, Line("Using default charge: 0", "", 0))]

Half == Fin(1, 2)
Two == Fin(2, 1)
One == Fin(1, 1)

\* line 73 without the factor 0.5: int(2 * uhf + 1)
MultiplicityOf_NoHalf(u) == int_of_float(FAdd(FMul(Two, u), One))

\* line 73: int(2 * (uhf * 0.5) + 1)
MultiplicityOf(u) == int_of_float(FAdd(FMul(Two, FMul(u, Half)), One))

\* lines 78-79: except ValueError: raise ValueError("Invalid float in ...");
\* any other exception leaves the block as it is
Reraised(e) ==
    IF e.type = "ValueError"
    THEN ErrOf("ValueError", "Invalid float in ", UHF, <<>>)
    ELSE e

\* lines 66-83: the multiplicity block
MultBlock(cli, uhf_file, v) ==
    IF cli.some
    THEN [raised |-> FALSE, multiplicity |-> Some(cli.val), uhf |-> NoFloat,
          err |-> NoErr,
          out |-> Printed(v, Line("Using multiplicity from CLI: ", "", cli.val))]
    ELSE IF uhf_file.exists
    THEN LET f == float_of_str(strip(uhf_file.text))
             m == MultiplicityOf(f.val)
         IN  IF ~f.ok
             THEN [raised |-> TRUE, multiplicity |-> None, uhf |-> NoFloat,
                   err |-> Reraised(f.err), out |-> <<>>]
             ELSE IF ~m.ok
             THEN [raised |-> TRUE, multiplicity |-> None, uhf |-> f.val,
                   err |-> Reraised(m.err), out |-> <<>>]
             ELSE [raised |-> FALSE, multiplicity |-> Some(m.val), uhf |-> f.val,
                   err |-> NoErr,
                   out |-> Printed(v, Line("Using multiplicity from file ",
                                           UHF, m.val))]
    ELSE [raised |-> FALSE, multiplicity |-> Some(1), uhf |-> NoFloat,
          err |-> NoErr,
          out |-> Printed(v, Line("Using default multiplicity: 1", "", 1))]

\* lines 38-85: the whole function; the multiplicity block runs only when the
\* charge block did not raise
read_charge_and_multiplicity(cli_c, cli_m, chrg_file, uhf_file, v) ==
    LET c == ChargeBlock(cli_c, chrg_file, v)
        m == MultBlock(cli_m, uhf_file, v)
    IN  IF c.raised
        THEN [raised |-> TRUE, charge |-> None, multiplicity |-> None,
              err |-> c.err, out |-> c.out]
        ELSE IF m.raised
        THEN [raised |-> TRUE, charge |-> None, multiplicity |-> None,
              err |-> m.err, out |-> c.out \o m.out]
        ELSE [raised |-> FALSE, charge |-> c.charge,
              multiplicity |-> m.multiplicity,
              err |-> NoErr, out |-> c.out \o m.out]

----------------------------------------------------------------------------
(* Structures, the evaluator's answers, output files.                      *)

\* most atoms in a structure
MaxAtoms == 2
\* the optimizer's iteration cap; main passes steps=1000 (line 151), scaled
\* down here
MaxSteps == 2

\* ase.units.Bohr and ase.units.Hartree (line 8), to two and three figures
Bohr == Fin(53, 100)
Hartree == Fin(136, 5)

\* the atoms an input file is made of, and the displacements an optimizer
\* step applies to the structure
AtomKinds == {[symbol |-> <<"O">>, position |-> <<0, 0, 0>>],
              [symbol |-> <<"C", "l">>, position |-> <<1, 0, -2>>]}
Shifts == {<<0, 0, 1>>, <<-1, 0, 0>>}
ForceVecs == {<<0, 0, 0>>, <<1, -2, 0>>}
Energies == {-3, 0}

NoAtoms == [read |-> FALSE, symbols |-> <<>>, positions |-> <<>>,
            info |-> [set |-> FALSE, charge |-> 0, spin |-> 0],
            calc |-> ""]

\* what ase.io.read may return for the input file
Structures ==
    {[symbols |-> [i \in 1..Len(a) |-> a[i].symbol],
      positions |-> [i \in 1..Len(a) |-> a[i].position]] :
     a \in UNION {[1..n -> AtomKinds] : n \in 1..MaxAtoms}}

\* positions moved by displacement d
Shifted(p, d) ==
    [i \in 1..Len(p) |-> [k \in 1..3 |-> p[i][k] + d[k]]]

NoCall == [kind |-> "", by |-> "", charge |-> 0, spin |-> 0, set |-> FALSE,
           positions |-> <<>>]
Call(kind, by, at) ==
    [kind |-> kind, by |-> by, charge |-> at.info.charge, spin |-> at.info.spin,
     set |-> at.info.set, positions |-> at.positions]

NoEvals == [n_energy |-> 0, n_forces |-> 0, e_pos |-> <<>>, f_pos |-> <<>>]

\* text files as sequences of lines; a line is the format that wrote it
\* (tag), its numbers and its symbol field
TextLine(tag) == [tag |-> tag, nums |-> <<>>, sym |-> <<>>]
NumLine(tag, nums, sym) == [tag |-> tag, nums |-> nums, sym |-> sym]
NoLines == [exists |-> FALSE, lines |-> <<>>]
StaleLines == [exists |-> TRUE, lines |-> <<TextLine("stale")>>]
LinesFile(ls) == [exists |-> TRUE, lines |-> ls]

NoXyz == [exists |-> FALSE, stale |-> FALSE, symbols |-> <<>>, positions |-> <<>>]
StaleXyz == [exists |-> TRUE, stale |-> TRUE, symbols |-> <<>>, positions |-> <<>>]
NoTraj == [exists |-> FALSE, stale |-> FALSE, frames |-> 0]
StaleTraj == [exists |-> TRUE, stale |-> TRUE, frames |-> 0]

\* the output files as an earlier run left them
PrevLines(p) == IF p THEN StaleLines ELSE NoLines
PrevXyz(p) == IF p THEN StaleXyz ELSE NoXyz
PrevTraj(p) == IF p THEN StaleTraj ELSE NoTraj

\* main's variables before main has done anything
MainIdle ==
    /\ opt = FALSE
    /\ stage = ""
    /\ resolves = 0
    /\ calc = ""
    /\ atoms = NoAtoms
    /\ original_atoms = NoAtoms
    /\ nsteps = 0
    /\ converged = FALSE
    /\ last_call = NoCall
    /\ evals = NoEvals
    /\ energy = NoFloat
    /\ forces = <<>>
    /\ prev = FALSE
    /\ gradient_file = NoLines
    /\ energy_file = NoLines
    /\ opt_file = NoXyz
    /\ traj_file = NoTraj

----------------------------------------------------------------------------
(* The resolver specification.                                             *)

CliCharges == {None} \cup {Some(c) : c \in -MaxCharge..MaxCharge}
CliMults == {None} \cup {Some(m) : m \in 0..MaxMult}

InitResolve ==
    /\ pc = "charge"
    /\ cli_charge \in CliCharges
    /\ cli_mult \in CliMults
    /\ verbose \in BOOLEAN
    /\ marker = NoMarker
    /\ charge = None
    /\ multiplicity = None
    /\ uhf = NoFloat
    /\ err = NoErr
    /\ out = <<>>
    /\ MainIdle

\* the marker files a block is run on: every text up to MaxLen when the
\* block opens the file, the three sorts when a command-line value keeps it
\* from looking
MarkersFor(cli) == IF cli.some THEN SampleMarkers ELSE MarkerStates(MaxLen)

\* the charge block on whatever .CHRG holds
ResolveCharge ==
    /\ pc = "charge"
    /\ \E f \in MarkersFor(cli_charge) :
         LET r == ChargeBlock(cli_charge, f, verbose)
         IN  /\ marker' = Seen(CHRG, f)
             /\ charge' = r.charge
             /\ err' = r.err
             /\ out' = out \o r.out
             /\ pc' = IF r.raised THEN "raised" ELSE "multiplicity"
    /\ UNCHANGED <<cli_charge, cli_mult, verbose, multiplicity, uhf>>
    /\ UNCHANGED <<mvars, fvars>>

\* the multiplicity block on whatever .UHF holds, then the return
ResolveMult ==
    /\ pc = "multiplicity"
    /\ \E f \in MarkersFor(cli_mult) :
         LET r == MultBlock(cli_mult, f, verbose)
         IN  /\ marker' = Seen(UHF, f)
             /\ multiplicity' = r.multiplicity
             /\ uhf' = r.uhf
             /\ err' = r.err
             /\ out' = out \o r.out
             /\ pc' = IF r.raised THEN "raised" ELSE "returned"
    /\ UNCHANGED <<cli_charge, cli_mult, verbose, charge>>
    /\ UNCHANGED <<mvars, fvars>>

NextResolve == ResolveCharge \/ ResolveMult

SpecResolve == InitResolve /\ [][NextResolve]_vars

----------------------------------------------------------------------------
(* The output formatter.                                                   *)

FromInt(i) == Fin(i, 1)

\* str.lower() and the format field ":>2"
LowerChar(c) == IF c = "O" THEN "o" ELSE IF c = "C" THEN "c" ELSE c
lower(sym) == [i \in 1..Len(sym) |-> LowerChar(sym[i])]
rjust(sym, w) ==
    IF Len(sym) >= w THEN sym ELSE [i \in 1..(w - Len(sym)) |-> " "] \o sym

\* line 101 without the sign: forces * Bohr / Hartree
GradientOf_NoSign(f) ==
    [i \in 1..Len(f) |->
        [k \in 1..3 |-> FDiv(FMul(FromInt(f[i][k]), Bohr), Hartree)]]

\* line 101: gradient = -forces * Bohr / Hartree, row by row
GradientOf(f) ==
    [i \in 1..Len(f) |->
        [k \in 1..3 |-> FDiv(FMul(FNeg(FromInt(f[i][k])), Bohr), Hartree)]]

RECURSIVE SumSquares(_)
SumSquares(rows) ==
    IF rows = <<>> THEN Fin(0, 1)
    ELSE LET r == Head(rows)
         IN  FAdd(FAdd(FMul(r[1], r[1]), FAdd(FMul(r[2], r[2]), FMul(r[3], r[3]))),
                  SumSquares(Tail(rows)))

\* line 102: np.linalg.norm(gradient)
GradNorm(g) == FSqrt(SumSquares(g))

Min(a, b) == IF a < b THEN a ELSE b

\* lines 110-113 written from the copy taken before the optimization
CoordLines_Original(at) ==
    [i \in 1..Min(Len(original_atoms.positions), Len(at.symbols)) |->
        NumLine("coord",
                [k \in 1..3 |->
                    FDiv(FromInt(original_atoms.positions[i][k]), Bohr)],
                rjust(lower(at.symbols[i]), 2))]

\* lines 110-113: one line per (position, symbol) pair of the zip
CoordLines(at) ==
    [i \in 1..Min(Len(at.positions), Len(at.symbols)) |->
        NumLine("coord",
                [k \in 1..3 |-> FDiv(FromInt(at.positions[i][k]), Bohr)],
                rjust(lower(at.symbols[i]), 2))]

\* line 115: np.savetxt writes one line per row of the gradient
GradLines(g) == [i \in 1..Len(g) |-> NumLine("grad", g[i], <<>>)]

\* lines 104-116: everything write_gradient_block writes, in order
GradientBlock(energy_hartree, f, at) ==
    LET g == GradientOf(f)
    IN  <<TextLine("$grad"),
          NumLine("cycle", <<energy_hartree, GradNorm(g)>>, <<>>)>>
        \o CoordLines(at) \o GradLines(g) \o <<TextLine("$end")>>

\* lines 104, 122: open("w") drops what the file held; the lines follow
Overwrite(old, ls) == LinesFile(ls)

\* lines 121-125: write_energy_block
EnergyBlock(energy_hartree) ==
    <<TextLine("$energy"),
      NumLine("1", <<energy_hartree, energy_hartree, energy_hartree>>, <<>>),
      TextLine("$end")>>

----------------------------------------------------------------------------
(* One run of main.                                                        *)

\* the command lines the run specification starts from
MainCharges == {None, Some(-1)}
MainMults == {None, Some(3)}

Init ==
    /\ pc = "start"
    /\ cli_charge \in MainCharges
    /\ cli_mult \in MainMults
    /\ verbose = FALSE
    /\ marker = NoMarker
    /\ charge = None
    /\ multiplicity = None
    /\ uhf = NoFloat
    /\ err = NoErr
    /\ out = <<>>
    /\ opt \in BOOLEAN
    /\ stage = ""
    /\ resolves = 0
    /\ calc = ""
    /\ atoms = NoAtoms
    /\ original_atoms = NoAtoms
    /\ nsteps = 0
    /\ converged = FALSE
    /\ last_call = NoCall
    /\ evals = NoEvals
    /\ energy = NoFloat
    /\ forces = <<>>
    /\ prev \in BOOLEAN
    /\ gradient_file = PrevLines(prev)
    /\ energy_file = PrevLines(prev)
    /\ opt_file = PrevXyz(prev)
    /\ traj_file = PrevTraj(prev)

args == <<cli_charge, cli_mult, verbose, opt, prev>>

\* an exception nothing catches ends the run
Raise(e) ==
    /\ pc' = "failed"
    /\ stage' = pc
    /\ err' = e

EvaluatorError == ErrOf("EvaluatorError", "", "", <<>>)
ReadError == ErrOf("ReadError", "", "", <<>>)
OSError == ErrOf("OSError", "", "", <<>>)

\* where main goes next: line 149 after the structure is read, line 158
\* after the optimized structure is written, lines 187 and 188 for the two
\* output files
AfterRead(o) == IF o THEN "optimize" ELSE "energy"
AfterWriteOpt == "energy"
\* the energy file written first, the gradient file not at all
AfterForces_EnergyFirst == "write_energy"
AfterForces == "write_gradient"
AfterGradient == "write_energy"

\* lines 145-146 with the two values stored under each other's key
AtomsOf_Swapped(st, c, m, k) ==
    [read |-> TRUE, symbols |-> st.symbols, positions |-> st.positions,
     info |-> [set |-> TRUE, charge |-> m, spin |-> c], calc |-> k]

\* lines 144-147: the structure as read, with charge, spin and calculator
AtomsOf(st, c, m, k) ==
    [read |-> TRUE, symbols |-> st.symbols, positions |-> st.positions,
     info |-> [set |-> TRUE, charge |-> c, spin |-> m], calc |-> k]

\* line 153 with the atoms written last to first
XyzOf_Reversed(at) ==
    [exists |-> TRUE, stale |-> FALSE,
     symbols |-> [i \in 1..Len(at.symbols) |->
                     at.symbols[Len(at.symbols) + 1 - i]],
     positions |-> [i \in 1..Len(at.positions) |->
                     at.positions[Len(at.positions) + 1 - i]]]

\* line 153: what write() puts into the xyz file
XyzOf(at) ==
    [exists |-> TRUE, stale |-> FALSE, symbols |-> at.symbols,
     positions |-> at.positions]

\* lines 135-140: charge and multiplicity are resolved
Resolve ==
    /\ pc = "start"
    /\ \E chrg_file \in SampleMarkers, uhf_file \in SampleMarkers :
         LET r == read_charge_and_multiplicity(cli_charge, cli_mult,
                                               chrg_file, uhf_file, verbose)
         IN  /\ resolves' = resolves + 1
             /\ out' = out \o r.out
             /\ charge' = r.charge
             /\ multiplicity' = r.multiplicity
             /\ IF r.raised
                THEN Raise(r.err)
                ELSE pc' = "load_model" /\ UNCHANGED <<stage, err>>
    /\ UNCHANGED <<args, marker, uhf, calc, atoms, original_atoms, nsteps,
                   converged, last_call, evals, energy, forces, fvars>>

\* lines 141-142: the model is loaded and the calculator built, or that fails
LoadModel ==
    /\ pc = "load_model"
    /\ \/ pc' = "read" /\ calc' = "omol" /\ UNCHANGED <<stage, err>>
       \/ Raise(EvaluatorError) /\ UNCHANGED calc
    /\ UNCHANGED <<args, marker, charge, multiplicity, uhf, out, resolves,
                   atoms, original_atoms, nsteps, converged, last_call,
                   evals, energy, forces, fvars>>

\* lines 144-147: the structure is read and given charge, spin and calculator
ReadStructure ==
    /\ pc = "read"
    /\ \/ \E st \in Structures :
            /\ atoms' = AtomsOf(st, charge.val, multiplicity.val, calc)
            /\ pc' = AfterRead(opt)
            /\ UNCHANGED <<stage, err>>
       \/ Raise(ReadError) /\ UNCHANGED atoms
    /\ UNCHANGED <<args, marker, charge, multiplicity, uhf, out, resolves,
                   calc, original_atoms, nsteps, converged, last_call, evals,
                   energy, forces, fvars>>

\* lines 150-151 and 91: the copy is taken and the optimizer built on the
\* structure; building it opens the trajectory file afresh
OptBegin ==
    /\ pc = "optimize"
    /\ original_atoms' = atoms
    /\ traj_file' = [exists |-> TRUE, stale |-> FALSE, frames |-> 0]
    /\ nsteps' = 0
    /\ pc' = "opt_step"
    /\ UNCHANGED <<args, marker, charge, multiplicity, uhf, out, err, stage,
                   resolves, calc, atoms, converged, last_call, evals, energy,
                   forces, gradient_file, energy_file, opt_file>>

\* with forces in whole eV/A and fmax below 1, fmax is met when all vanish
Converged(f) == \A i \in 1..Len(f) : f[i] = <<0, 0, 0>>

\* optimize() turning a run that did not converge into a failure
AfterRun_Strict(conv) == IF conv THEN "write_opt" ELSE "failed"

\* what optimize() does when optimizer.run comes back (line 92): nothing
\* with the verdict; it returns and main goes on to line 153
AfterRun(conv) == "write_opt"

\* line 92, optimizer.run(fmax, steps): the optimizer asks the evaluator for
\* the forces and records the frame; it stops when fmax is met or the cap is
\* reached, and moves the atoms otherwise
OptStep ==
    /\ pc = "opt_step"
    /\ \/ \E f \in [1..Len(atoms.positions) -> ForceVecs] :
            /\ last_call' = Call("forces", "optimizer", atoms)
            /\ traj_file' = [traj_file EXCEPT !.frames = nsteps + 1]
            /\ IF Converged(f) \/ nsteps >= MaxSteps
               THEN /\ converged' = Converged(f)
                    /\ pc' = AfterRun(Converged(f))
                    /\ UNCHANGED <<atoms, nsteps>>
               ELSE /\ \E d \in Shifts :
                          atoms' = [atoms EXCEPT
                                      !.positions = Shifted(@, d)]
                    /\ nsteps' = nsteps + 1
                    /\ UNCHANGED <<pc, converged>>
            /\ UNCHANGED <<stage, err>>
       \/ /\ last_call' = Call("forces", "optimizer", atoms)
          /\ Raise(EvaluatorError)
          /\ UNCHANGED <<atoms, nsteps, converged, traj_file>>
    /\ UNCHANGED <<args, marker, charge, multiplicity, uhf, out, resolves,
                   calc, original_atoms, evals, energy, forces, gradient_file,
                   energy_file, opt_file>>

\* line 153: write("omol25-opt.xyz", atoms)
WriteOpt ==
    /\ pc = "write_opt"
    /\ \/ /\ opt_file' = XyzOf(atoms)
          /\ pc' = AfterWriteOpt
          /\ UNCHANGED <<stage, err>>
       \/ Raise(OSError) /\ UNCHANGED opt_file
    /\ UNCHANGED <<args, marker, charge, multiplicity, uhf, out, resolves,
                   calc, atoms, original_atoms, nsteps, converged, last_call,
                   evals, energy, forces, gradient_file, energy_file,
                   traj_file>>

\* lines 158-164: the driver asks for the potential energy, in Hartree
EvalEnergy ==
    /\ pc = "energy"
    /\ last_call' = Call("energy", "driver", atoms)
    /\ evals' = [evals EXCEPT !.n_energy = @ + 1, !.e_pos = atoms.positions]
    /\ \/ \E e \in Energies :
            /\ energy' = FDiv(FromInt(e), Hartree)
            /\ pc' = "forces"
            /\ UNCHANGED <<stage, err>>
       \/ Raise(EvaluatorError) /\ UNCHANGED energy
    /\ UNCHANGED <<args, marker, charge, multiplicity, uhf, out, resolves,
                   calc, atoms, original_atoms, nsteps, converged, forces,
                   fvars>>

\* line 168: the driver asks for the forces
EvalForces ==
    /\ pc = "forces"
    /\ last_call' = Call("forces", "driver", atoms)
    /\ evals' = [evals EXCEPT !.n_forces = @ + 1, !.f_pos = atoms.positions]
    /\ \/ \E f \in [1..Len(atoms.positions) -> ForceVecs] :
            /\ forces' = f
            /\ pc' = AfterForces
            /\ UNCHANGED <<stage, err>>
       \/ Raise(EvaluatorError) /\ UNCHANGED forces
    /\ UNCHANGED <<args, marker, charge, multiplicity, uhf, out, resolves,
                   calc, atoms, original_atoms, nsteps, converged, energy,
                   fvars>>

\* line 187: write_gradient_block; a failure may come before the file is
\* opened, right after (the file is left empty) or before the last line
WriteGradient ==
    /\ pc = "write_gradient"
    /\ LET ls == GradientBlock(energy, forces, atoms)
       IN  \/ /\ gradient_file' = Overwrite(gradient_file, ls)
              /\ pc' = AfterGradient
              /\ UNCHANGED <<stage, err>>
           \/ /\ Raise(OSError)
              /\ \/ UNCHANGED gradient_file
                 \/ \E n \in {0, Len(ls) - 1} :
                      gradient_file' = Overwrite(gradient_file, SubSeq(ls, 1, n))
    /\ UNCHANGED <<args, marker, charge, multiplicity, uhf, out, resolves,
                   calc, atoms, original_atoms, nsteps, converged, last_call,
                   evals, energy, forces, energy_file, opt_file, traj_file>>

\* line 188: write_energy_block
WriteEnergy ==
    /\ pc = "write_energy"
    /\ \/ /\ energy_file' = Overwrite(energy_file, EnergyBlock(energy))
          /\ pc' = "done"
          /\ UNCHANGED <<stage, err>>
       \/ /\ Raise(OSError)
          /\ \/ UNCHANGED energy_file
             \/ energy_file' = Overwrite(energy_file, <<>>)
    /\ UNCHANGED <<args, marker, charge, multiplicity, uhf, out, resolves,
                   calc, atoms, original_atoms, nsteps, converged, last_call,
                   evals, energy, forces, gradient_file, opt_file, traj_file>>

Next ==
    \/ Resolve
    \/ LoadModel
    \/ ReadStructure
    \/ OptBegin
    \/ OptStep
    \/ WriteOpt
    \/ EvalEnergy
    \/ EvalForces
    \/ WriteGradient
    \/ WriteEnergy

Spec == Init /\ [][Next]_vars

----------------------------------------------------------------------------
(* Properties of the option resolver, checked under SpecResolve.           *)

\* the text converts to a finite float
Convertible(t) ==
    LET f == float_of_str(strip(t)) IN f.ok /\ f.val.kind = "fin"

\* k is n/d truncated toward zero (d > 0)
IsTruncOf(k, n, d) ==
    IF n >= 0 THEN k * d <= n /\ n < (k + 1) * d
    ELSE (k - 1) * d < n /\ n <= k * d

\* the charge block has run on an existing .CHRG with no --charge given
ChrgCase == ~cli_charge.some /\ marker.name = CHRG /\ marker.exists

\* the multiplicity block has run on an existing .UHF with no --multiplicity
UhfCase == ~cli_mult.some /\ marker.name = UHF /\ marker.exists

\* C1 as stated: with a charge c on the command line the resolver returns a
\* pair whose charge is c, whatever the marker files hold.
C1_Original ==
    (cli_charge.some /\ pc \in {"returned", "raised"})
        => (pc = "returned" /\ charge = Some(cli_charge.val))

\* C1 as amended: with a charge c on the command line the charge is c after
\* the charge block whatever .CHRG holds, and c in the pair returned; the
\* resolver raises instead of returning exactly when no multiplicity is on
\* the command line and .UHF exists with content that converts to no finite
\* float.
C1_CliChargeWins ==
    cli_charge.some =>
        /\ pc \in {"multiplicity", "returned"} => charge = Some(cli_charge.val)
        /\ pc = "raised" => (UhfCase /\ ~Convertible(marker.text))
        /\ pc = "returned" => ~(UhfCase /\ ~Convertible(marker.text))

\* a negative command-line charge returned while .UHF was read for the
\* multiplicity
C1_Witness ==
    /\ pc = "returned"
    /\ cli_charge = Some(-1)
    /\ charge = Some(-1)
    /\ UhfCase

\* texts and the integers they spell
IntExamples ==
    {<< <<"1">>, 1 >>, << <<"-", "1">>, -1 >>, << <<"1", "0">>, 10 >>,
     << <<"0">>, 0 >>, << <<"0", "1">>, 1 >>}

C3_Original ==
    (pc \in {"returned", "raised"} /\ UhfCase
     /\ float_of_str(strip(marker.text)).ok)
        => /\ pc = "returned"
           /\ multiplicity.some
           /\ LET u == float_of_str(strip(marker.text)).val
              IN  u.kind = "fin"
                  => IsTruncOf(multiplicity.val, u.num + u.den, u.den)

\* texts and the multiplicities they give
UhfExamples ==
    {<< <<"0">>, 1 >>, << <<"1">>, 2 >>, << <<"1", "0">>, 11 >>,
     << <<"-", "1">>, 0 >>, << <<".", "1">>, 1 >>}

\* C3 as amended: with no --multiplicity, an existing .UHF and a charge block
\* that did not raise: content that parses as a finite float u returns
\* multiplicity int(u + 1), u + 1 truncated toward zero; content that parses
\* as an infinity raises OverflowError; content that parses as NaN raises the
\* ValueError naming .UHF.
C3_MultiplicityFromFile ==
    (pc \in {"returned", "raised"} /\ UhfCase
     /\ float_of_str(strip(marker.text)).ok)
        => LET t == strip(marker.text)
               u == float_of_str(t).val
           IN  /\ u.kind = "fin" =>
                     /\ pc = "returned"
                     /\ multiplicity.some
                     /\ IsTruncOf(multiplicity.val, u.num + u.den, u.den)
                     /\ \A x \in UhfExamples :
                            t = x[1] => multiplicity.val = x[2]
               /\ u.kind = "inf" =>
                     /\ pc = "raised"
                     /\ err.type = "OverflowError"
                     /\ multiplicity = None
               /\ u.kind = "nan" =>
                     /\ pc = "raised"
                     /\ err.type = "ValueError"
                     /\ err.file = UHF
                     /\ multiplicity = None

\* .UHF held "1.1" and multiplicity 2 was returned
C3_Witness ==
    /\ pc = "returned"
    /\ ~cli_mult.some
    /\ marker = Seen(UHF, FileWith(<<"1", ".", "1">>))
    /\ multiplicity = Some(2)

\* the block that ran last failed on marker-file content it could not parse
Unparseable ==
    \/ ChrgCase /\ ~int_of_str(strip(marker.text)).ok
    \/ UhfCase /\ ~float_of_str(strip(marker.text)).ok

\* C4: a resolver failure on unparseable .CHRG or .UHF content is a
\* ValueError whose message names the marker file at fault, and no value is
\* returned.
C4_ErrorsNameFile ==
    (pc = "raised" /\ Unparseable)
        => /\ err.type = "ValueError"
           /\ err.file = marker.name
           /\ charge = None \/ multiplicity = None

----------------------------------------------------------------------------
(* Properties of a run of main, checked under Spec.                        *)

\* write_gradient_block has returned in this run
GradientWritten ==
    \/ pc \in {"write_energy", "done"}
    \/ pc = "failed" /\ stage = "write_energy"

\* the symbol field of a coordinate line
SymbolField(sym) == IF sym = <<"O">> THEN <<" ", "o">> ELSE <<"c", "l">>

RECURSIVE SumOfSquares(_)
SumOfSquares(f) ==
    IF f = <<>> THEN 0
    ELSE f[1][1] * f[1][1] + f[1][2] * f[1][2] + f[1][3] * f[1][3]
         + SumOfSquares(Tail(f))

\* x is the norm of the gradient of forces f: x^2 Hartree^2 = |f|^2 Bohr^2
IsNormOf(x, f) ==
    IF SumOfSquares(f) = 0 THEN x = Fin(0, 1)
    ELSE /\ x.kind = "sqrt"
         /\ FMul(Fin(x.num, x.den), FMul(Hartree, Hartree))
                = FMul(FromInt(SumOfSquares(f)), FMul(Bohr, Bohr))

\* C5: once write_gradient_block has returned, the gradient file holds
\* nothing but: "$grad"; the header with the energy and the gradient norm; one
\* coordinate line per atom, in structure order, with the position over Bohr
\* and the lowercased symbol right-justified to width 2; one gradient line
\* per atom, in the same order, with -force * Bohr / Hartree; "$end".  Zero
\* forces give zero gradient lines and a zero norm.
C5_GradientLayout ==
    GradientWritten =>
        LET n == Len(atoms.symbols)
            ls == gradient_file.lines
        IN  /\ gradient_file.exists
            /\ Len(ls) = 2 * n + 3
            /\ ls[1] = TextLine("$grad")
            /\ ls[2].tag = "cycle"
            /\ ls[2].nums[1] = energy
            /\ IsNormOf(ls[2].nums[2], forces)
            /\ \A i \in 1..n :
                 /\ ls[2 + i].tag = "coord"
                 /\ ls[2 + i].sym = SymbolField(atoms.symbols[i])
                 /\ \A k \in 1..3 :
                      FMul(ls[2 + i].nums[k], Bohr)
                          = FromInt(atoms.positions[i][k])
            /\ \A i \in 1..n :
                 /\ ls[2 + n + i].tag = "grad"
                 /\ \A k \in 1..3 :
                      /\ FMul(ls[2 + n + i].nums[k], Hartree)
                             = FMul(FromInt(-forces[i][k]), Bohr)
                      /\ forces[i][k] = 0 => ls[2 + n + i].nums[k] = Fin(0, 1)
            /\ ls[2 * n + 3] = TextLine("$end")

\* a finished run over stale files: two different atoms, off the origin,
\* with different forces
C5_Witness ==
    /\ pc = "done"
    /\ prev
    /\ Len(atoms.symbols) = 2
    /\ atoms.symbols[1] # atoms.symbols[2]
    /\ forces[1] # forces[2]
    /\ atoms.positions[1] # <<0, 0, 0>>

\* C6: the resolver is called once, before anything is evaluated; the charge
\* and spin stored on the structure are the resolved pair, every evaluator
\* call (the optimizer's and the driver's) sees them, and neither the stored
\* values nor the resolved pair change once set.
C6_ResolveOnce ==
    /\ [](/\ resolves <= 1
          /\ pc \notin {"start", "failed"} => resolves = 1
          /\ atoms.info.set =>
               /\ resolves = 1
               /\ charge.some /\ multiplicity.some
               /\ atoms.info.charge = charge.val
               /\ atoms.info.spin = multiplicity.val
          /\ last_call.kind # "" =>
               /\ resolves = 1
               /\ last_call.set
               /\ charge.some /\ multiplicity.some
               /\ last_call.charge = charge.val
               /\ last_call.spin = multiplicity.val)
    /\ [][/\ atoms.info.set => atoms'.info = atoms.info
          /\ resolves = 1 => /\ resolves' = 1
                             /\ charge' = charge
                             /\ multiplicity' = multiplicity]_vars

\* a finished optimizing run whose last evaluator call saw charge -1 from
\* the command line and spin 2 from .UHF
C6_Witness ==
    /\ pc = "done"
    /\ opt
    /\ nsteps > 0
    /\ last_call.kind = "forces"
    /\ last_call.by = "driver"
    /\ last_call.charge = -1
    /\ last_call.spin = 2

\* C7: the driver asks for the energy once and then for the forces once,
\* never before the optimizer has finished and the optimized structure is
\* written; both calls see the final positions, which are the positions the
\* gradient file and, with --opt, the optimized-structure file hold.
C7_FinalEvaluation ==
    /\ evals.n_forces <= evals.n_energy
    /\ evals.n_energy <= 1
    /\ pc \in {"write_gradient", "write_energy", "done"} =>
         evals.n_energy = 1 /\ evals.n_forces = 1
    /\ evals.n_energy > 0 =>
         /\ pc \in {"forces", "write_gradient", "write_energy", "done", "failed"}
         /\ pc = "failed" =>
              stage \in {"energy", "forces", "write_gradient", "write_energy"}
         /\ last_call.by = "driver"
         /\ evals.e_pos = atoms.positions
         /\ opt => /\ opt_file.exists /\ ~opt_file.stale
                   /\ opt_file.positions = evals.e_pos
    /\ evals.n_forces > 0 => evals.f_pos = evals.e_pos
    /\ GradientWritten =>
         LET n == Len(evals.e_pos)
             ls == gradient_file.lines
         IN  /\ Len(ls) = 2 * n + 3
             /\ \A i \in 1..n : \A k \in 1..3 :
                  FMul(ls[2 + i].nums[k], Bohr) = FromInt(evals.e_pos[i][k])

\* a finished run whose optimizer moved the atoms
C7_Witness ==
    /\ pc = "done"
    /\ opt
    /\ atoms.positions # original_atoms.positions
    /\ evals.n_energy = 1
    /\ evals.n_forces = 1

ErrorTypes ==
    {"ValueError", "OverflowError", "EvaluatorError", "ReadError", "OSError"}

\* C8: an optimizer that reaches its iteration cap without meeting fmax makes
\* optimize return like one that converged: no error is raised, the run goes
\* on to write the optimized structure, and a run that ends has evaluated
\* energy and forces on that geometry and written both output files.
C8_SilentNonConvergence ==
    /\ [](/\ pc = "failed" => err.type \in ErrorTypes /\ stage # ""
          /\ pc # "failed" => err = NoErr
          /\ pc = "failed" /\ stage = "opt_step" => err = EvaluatorError
          /\ ~converged /\ pc \in {"write_opt", "energy"} /\ opt =>
               nsteps = MaxSteps
          /\ opt /\ pc = "done" =>
               /\ opt_file.exists /\ ~opt_file.stale
               /\ opt_file.positions = atoms.positions
               /\ evals = [n_energy |-> 1, n_forces |-> 1,
                           e_pos |-> atoms.positions,
                           f_pos |-> atoms.positions]
               /\ gradient_file.exists
               /\ gradient_file.lines[Len(gradient_file.lines)]
                      = TextLine("$end")
               /\ energy_file = LinesFile(EnergyBlock(energy)))
    /\ [][pc = "opt_step" /\ pc' \notin {"opt_step", "write_opt"}
            => pc' = "failed" /\ err' = EvaluatorError]_vars

\* a finished run whose optimizer used up its iterations unconverged
C8_Witness ==
    /\ pc = "done"
    /\ opt
    /\ ~converged
    /\ nsteps = MaxSteps
    /\ atoms.positions # original_atoms.positions

C10_OutputsLast ==
    /\ gradient_file # PrevLines(prev) =>
         /\ \/ pc \in {"write_energy", "done"}
            \/ pc = "failed" /\ stage \in {"write_gradient", "write_energy"}
         /\ resolves = 1
         /\ calc # ""
         /\ atoms.read
         /\ evals.n_energy = 1 /\ evals.n_forces = 1
         /\ opt => opt_file.exists /\ ~opt_file.stale
    /\ energy_file # PrevLines(prev) =>
         /\ pc = "done" \/ (pc = "failed" /\ stage = "write_energy")
         /\ gradient_file.exists
         /\ Len(gradient_file.lines) = 2 * Len(atoms.symbols) + 3
         /\ gradient_file.lines[Len(gradient_file.lines)] = TextLine("$end")
    /\ (pc = "failed" /\ stage \notin {"write_gradient", "write_energy"}) =>
         gradient_file = PrevLines(prev) /\ energy_file = PrevLines(prev)
    /\ (pc = "failed" /\ stage = "write_gradient") =>
         energy_file = PrevLines(prev)

\* a run that failed inside write_gradient_block after opening the file,
\* the energy file of the earlier run still in place
C10_Witness ==
    /\ pc = "failed"
    /\ stage = "write_gradient"
    /\ prev
    /\ gradient_file # PrevLines(prev)
    /\ energy_file = StaleLines

=============================================================================
